---- MODULE Spec2Model ----
(***************************************************************************)
(* Model of api_server.py: the OpenAI-compatible front end of NotebookLM.  *)
(*                                                                         *)
(* Text is a sequence of one-character strings.  An Optional[str] that is  *)
(* None is the one-element sequence None, which no text can equal.         *)
(* Every request is handled by its own task; tasks interleave only at      *)
(* awaits and yields, so the model has one step per await/yield.           *)
(***************************************************************************)
EXTENDS Integers, Sequences, FiniteSets, TLC

(***************************************************************************)
(* Bounds of the model.                                                    *)
(***************************************************************************)
MaxAuthLen == 2      \* longest key body / header body enumerated for the auth check
MaxTextLen == 4      \* longest raw answer enumerated character by character
MaxWords == 41       \* largest word count of the generated long answers
MaxMsgs == 2         \* longest message list enumerated for request resolution

ChunkTarget == 20    \* len(words) // 20
BearerLen == 7       \* authorization[7:]
NormalizeRun == 4    \* \n{4,}
NormalizeTo == 3     \* '\n\n\n'
CleanRun == 3        \* \n{3,}
CleanTo == 2         \* '\n\n'

Requests == {"r1", "r2"}

(***************************************************************************)
(* Text helpers (Python str semantics).                                    *)
(***************************************************************************)
None == <<"None">>
NL == "\n"
\* The whitespace of str.strip, str.split and \s (the characters of it that
\* the model's texts use).
Space == {" ", NL, "\t", "\r"}
IsSpace(c) == c \in Space

\* Python truthiness of an Optional[str]: None and "" are falsy.
Truthy(s) == s # None /\ s # <<>>

RECURSIVE lstrip(_)
lstrip(s) == IF s = <<>> THEN s
             ELSE IF IsSpace(Head(s)) THEN lstrip(Tail(s)) ELSE s

RECURSIVE rstrip(_)
rstrip(s) == IF s = <<>> THEN s
             ELSE IF IsSpace(s[Len(s)]) THEN rstrip(SubSeq(s, 1, Len(s) - 1)) ELSE s

\* str.strip()
strip(s) == rstrip(lstrip(s))

\* Concatenation of a sequence of sequences (by halves, to keep the
\* evaluation shallow on long texts).
RECURSIVE Concat(_)
Concat(ss) ==
    IF Len(ss) = 0 THEN <<>>
    ELSE IF Len(ss) = 1 THEN ss[1]
    ELSE LET h == Len(ss) \div 2
         IN Concat(SubSeq(ss, 1, h)) \o Concat(SubSeq(ss, h + 1, Len(ss)))

\* The positions p of s that satisfy Test(p), in increasing order.
Positions(s, Test(_)) == SelectSeq([p \in 1..Len(s) |-> p], Test)

\* Last position of the word of s that starts at position p.
RECURSIVE WordEnd(_, _)
WordEnd(s, p) == IF p < Len(s) /\ ~IsSpace(s[p + 1]) THEN WordEnd(s, p + 1) ELSE p

\* str.split() with no argument: runs of whitespace separate, no empty words.
split(s) ==
    LET IsStart(p) == ~IsSpace(s[p]) /\ (p = 1 \/ IsSpace(s[p - 1]))
        starts == Positions(s, IsStart)
    IN [k \in 1..Len(starts) |-> SubSeq(s, starts[k], WordEnd(s, starts[k]))]

\* " ".join(ws)
join(ws) ==
    Concat([k \in 1..(2 * Len(ws) - 1) |-> IF k % 2 = 1 THEN ws[(k + 1) \div 2] ELSE <<" ">>])

\* str.startswith
startswith(s, p) == Len(s) >= Len(p) /\ SubSeq(s, 1, Len(p)) = p

\* s[n:]
SliceFrom(s, n) == IF n >= Len(s) THEN <<>> ELSE SubSeq(s, n + 1, Len(s))

\* words[i:j] with 0-based i, j as in Python
Slice(ws, i, j) == IF i >= Len(ws) THEN <<>>
                   ELSE SubSeq(ws, i + 1, IF j > Len(ws) THEN Len(ws) ELSE j)

Max(a, b) == IF a >= b THEN a ELSE b

Newlines(n) == [j \in 1..n |-> NL]

(***************************************************************************)
(* Regular expressions (Python re).  A pattern is a sequence of atoms; an   *)
(* atom is a character class with a repetition range, greedy or lazy, or    *)
(* the anchor ^ of re.MULTILINE.  A replacement is a sequence of items: a   *)
(* literal text, or the text matched by atoms a..b (a group).              *)
(***************************************************************************)
Inf == -1

Class(chars, negated, min, max, lazy) ==
    [chars |-> chars, negated |-> negated, min |-> min, max |-> max, lazy |-> lazy,
     bol |-> FALSE]

Lit(c) == Class({c}, FALSE, 1, 1, FALSE)            \* one literal character
Rep(chars, min, max) == Class(chars, FALSE, min, max, FALSE)
Not(chars, min, max) == Class(chars, TRUE, min, max, FALSE)
LazyDot == Class({NL}, TRUE, 1, Inf, TRUE)          \* .+?
Bol == [chars |-> {}, negated |-> FALSE, min |-> 0, max |-> 0, lazy |-> FALSE,
        bol |-> TRUE]                               \* ^

Text(t) == [a |-> 0, b |-> 0, lit |-> t]
Group(a, b) == [a |-> a, b |-> b, lit |-> <<>>]

Digit == {"0", "1", "2", "3", "4", "5", "6", "7", "8", "9"}      \* \d
WordChar == Digit \cup {"_", "a", "b", "c", "x", "y", "U+00E2"}  \* \w (letters of the model)

InClass(atom, c) == (c \in atom.chars) # atom.negated

\* Number of characters of s from position p on that atom accepts, at most max.
RECURSIVE RunLength(_, _, _, _)
RunLength(s, p, atom, max) ==
    IF max = 0 \/ p > Len(s) \/ ~InClass(atom, s[p]) THEN 0
    ELSE 1 + RunLength(s, p + 1, atom, IF max = Inf THEN Inf ELSE max - 1)

NoMatch == <<-1>>

\* The backtracking matcher: atoms k.. of pattern at position p of s.  The
\* result is the end position (exclusive) of each of these atoms, or NoMatch.
RECURSIVE MatchAt(_, _, _, _)
RECURSIVE TryCount(_, _, _, _, _, _)
MatchAt(s, p, pattern, k) ==
    IF k > Len(pattern) THEN <<>>
    ELSE LET atom == pattern[k]
         IN IF atom.bol
            THEN IF p = 1 \/ s[p - 1] = NL
                 THEN LET rest == MatchAt(s, p, pattern, k + 1)
                      IN IF rest = NoMatch THEN NoMatch ELSE <<p>> \o rest
                 ELSE NoMatch
            ELSE LET avail == RunLength(s, p, atom, atom.max)
                 IN IF avail < atom.min THEN NoMatch
                    ELSE TryCount(s, p, pattern, k, avail,
                                  IF atom.lazy THEN atom.min ELSE avail)

\* Atom k takes n characters; on failure of the rest the next count in the
\* atom's order of preference (greedy: one fewer, lazy: one more).
TryCount(s, p, pattern, k, avail, n) ==
    LET atom == pattern[k]
        rest == MatchAt(s, p + n, pattern, k + 1)
    IN IF rest # NoMatch THEN <<p + n>> \o rest
       ELSE IF atom.lazy
            THEN (IF n < avail THEN TryCount(s, p, pattern, k, avail, n + 1) ELSE NoMatch)
            ELSE (IF n > atom.min THEN TryCount(s, p, pattern, k, avail, n - 1) ELSE NoMatch)

\* First position >= p where pattern matches (0: none).
NextMatch(s, p, pattern) ==
    LET found == {q \in p..Len(s) : MatchAt(s, q, pattern, 1) # NoMatch}
    IN IF found = {} THEN 0 ELSE CHOOSE q \in found : \A o \in found : q <= o

\* The replacement for the match whose atom boundaries are bounds.
Expand(s, bounds, replacement) ==
    Concat([j \in 1..Len(replacement) |->
              IF replacement[j].a = 0 THEN replacement[j].lit
              ELSE SubSeq(s, bounds[replacement[j].a], bounds[replacement[j].b + 1] - 1)])

\* re.sub(pattern, replacement, s) from position p on: leftmost matches, not
\* overlapping.  No pattern of this program matches the empty string.
RECURSIVE SubFrom(_, _, _, _)
SubFrom(s, p, pattern, replacement) ==
    LET q == NextMatch(s, p, pattern)
    IN IF q = 0 THEN SubSeq(s, p, Len(s))
       ELSE LET bounds == <<q>> \o MatchAt(s, q, pattern, 1)
            IN SubSeq(s, p, q - 1) \o Expand(s, bounds, replacement)
                 \o SubFrom(s, bounds[Len(bounds)], pattern, replacement)

re_sub(pattern, replacement, s) == SubFrom(s, 1, pattern, replacement)

(***************************************************************************)
(* MarkdownPostProcessor.                                                  *)
(***************************************************************************)
Hashes == Rep({"#"}, 1, 6)                          \* #{1,6}
Spaces == Rep(Space, 1, Inf)                        \* \s+
NotNewline == Not({NL}, 1, 1)                       \* [^\n]
ListMarker == Rep({"*", "-", "+"}, 1, 1)            \* [\*\-\+]
Backtick == "U+0060"                                \* the backquote character
Fence == <<Lit(Backtick), Lit(Backtick), Lit(Backtick)>>   \* <fence>: three backquotes
BlankLine == Text(<<NL, NL>>)

\* normalize_markdown without its last substitution.
collapse_blank_lines_skipped(t) == t

\* \n{4,} -> \n\n\n
collapse_blank_lines(t) ==
    re_sub(<<Rep({NL}, NormalizeRun, Inf)>>, <<Text(Newlines(NormalizeTo))>>, t)

normalize_markdown(text) ==
    LET \* ([^\n])\n(#{1,6}\s+) -> \1\n\n\2
        t1 == re_sub(<<NotNewline, Lit(NL), Hashes, Spaces>>,
                     <<Group(1, 1), BlankLine, Group(3, 4)>>, text)
        \* (#{1,6}\s+[^\n]+)\n([^\n#]) -> \1\n\n\2
        t2 == re_sub(<<Hashes, Spaces, Not({NL}, 1, Inf), Lit(NL), Not({NL, "#"}, 1, 1)>>,
                     <<Group(1, 3), BlankLine, Group(5, 5)>>, t1)
        \* ([^\n])\n([\*\-\+]\s+) -> \1\n\n\2
        t3 == re_sub(<<NotNewline, Lit(NL), ListMarker, Spaces>>,
                     <<Group(1, 1), BlankLine, Group(3, 4)>>, t2)
        \* ([^\n])\n(<fence>) -> \1\n\n\2
        t4 == re_sub(<<NotNewline, Lit(NL)>> \o Fence,
                     <<Group(1, 1), BlankLine, Group(3, 5)>>, t3)
        \* (<fence>)\n([^\n]) -> \1\n\n\2
        t5 == re_sub(Fence \o <<Lit(NL), NotNewline>>,
                     <<Group(1, 3), BlankLine, Group(5, 5)>>, t4)
        t6 == collapse_blank_lines(t5)
    IN strip(t6)

\* The replacement text of the list-marker substitution, as the source has it.
Bullet == <<"U+00E2", "U+20AC", "U+00A2", " ">>

clean_markdown_text(text) ==
    LET \* ^#{1,6}\s+ -> (empty)
        t1 == re_sub(<<Bol, Hashes, Spaces>>, <<>>, text)
        \* \*\*(.+?)\*\* -> \1
        t2 == re_sub(<<Lit("*"), Lit("*"), LazyDot, Lit("*"), Lit("*")>>, <<Group(3, 3)>>, t1)
        \* __(.+?)__ -> \1
        t3 == re_sub(<<Lit("_"), Lit("_"), LazyDot, Lit("_"), Lit("_")>>, <<Group(3, 3)>>, t2)
        \* \*(.+?)\* -> \1
        t4 == re_sub(<<Lit("*"), LazyDot, Lit("*")>>, <<Group(2, 2)>>, t3)
        \* _(.+?)_ -> \1
        t5 == re_sub(<<Lit("_"), LazyDot, Lit("_")>>, <<Group(2, 2)>>, t4)
        \* ^\s*[\*\-\+]\s+ -> bullet
        t6 == re_sub(<<Bol, Rep(Space, 0, Inf), ListMarker, Spaces>>, <<Text(Bullet)>>, t5)
        \* ^\s*\d+\.\s+ -> (empty)
        t7 == re_sub(<<Bol, Rep(Space, 0, Inf), Rep(Digit, 1, Inf), Lit("."), Spaces>>,
                     <<>>, t6)
        \* <fence>[\w]*\n -> (empty)
        t8 == re_sub(Fence \o <<Rep(WordChar, 0, Inf), Lit(NL)>>, <<>>, t7)
        \* <fence> -> (empty)
        t9 == re_sub(Fence, <<>>, t8)
        \* <backtick>(.+?)<backtick> -> \1
        t10 == re_sub(<<Lit(Backtick), LazyDot, Lit(Backtick)>>, <<Group(2, 2)>>, t9)
        \* \[(.+?)\]\(.+?\) -> \1
        t11 == re_sub(<<Lit("["), LazyDot, Lit("]"), Lit("("), LazyDot, Lit(")")>>,
                      <<Group(2, 2)>>, t10)
        \* \n{3,} -> \n\n
        t12 == re_sub(<<Rep({NL}, CleanRun, Inf)>>, <<Text(Newlines(CleanTo))>>, t11)
    IN strip(t12)

\* The CLEAN_MARKDOWN branch of both completion functions.
process_answer(clean, raw) ==
    IF clean THEN clean_markdown_text(raw) ELSE normalize_markdown(raw)

(***************************************************************************)
(* ResponseChunker: the loop of stream_chat_completion.                    *)
(***************************************************************************)
\* chunk_size without its lower bound of 1 (len(words) // 20).
chunk_size_floor(words) == Len(words) \div ChunkTarget

chunk_size(words) == Max(1, Len(words) \div ChunkTarget)

\* chunk_content with the slice one word short.
chunk_content_short(words, i) ==
    LET chunk_words == Slice(words, i, i + chunk_size(words) - 1)
        content == join(chunk_words)
    IN IF i > 0 THEN <<" ">> \o content ELSE content

\* The content of the DeltaChunk built by the iteration that starts at
\* 0-based word index i.
chunk_content(words, i) ==
    LET chunk_words == Slice(words, i, i + chunk_size(words))
        content == join(chunk_words)
    IN IF i > 0 THEN <<" ">> \o content ELSE content

(***************************************************************************)
(* Inbound authentication.                                                 *)
(***************************************************************************)
Bearer == <<"B", "e", "a", "r", "e", "r", " ">>

verify_api_key(API_KEY, authorization) ==
    IF ~Truthy(API_KEY) THEN TRUE
    ELSE IF ~Truthy(authorization) THEN FALSE
    ELSE LET token == IF startswith(authorization, Bearer)
                      THEN SliceFrom(authorization, BearerLen)
                      ELSE authorization
         IN token = API_KEY

(***************************************************************************)
(* Exceptions and the error envelope.                                      *)
(* An exception is a record: kind is its class, status/etype/code/msg the  *)
(* HTTPException's status_code and detail (etype = "" when the detail is   *)
(* a bare string), msg the text of str(e).                                 *)
(***************************************************************************)
NoExc == [kind |-> "none", status |-> 0, etype |-> "", code |-> "", msg |-> ""]

HTTPException(status, etype, code, msg) ==
    [kind |-> "HTTPException", status |-> status, etype |-> etype, code |-> code, msg |-> msg]

PlainException(msg) ==
    [kind |-> "Exception", status |-> 0, etype |-> "", code |-> "", msg |-> msg]

BaseExc(kind) ==
    [kind |-> kind, status |-> 0, etype |-> "", code |-> "", msg |-> ""]

\* A handler that lets HTTPException through ('except HTTPException: raise').
CaughtUnlessHTTPException(e) == e.kind = "Exception"

\* 'except Exception': HTTPException derives from Exception; CancelledError
\* and GeneratorExit derive from BaseException only.
CaughtByExceptException(e) == e.kind \in {"Exception", "HTTPException"}

NoResponse ==
    [content |-> None, status |-> 0, etype |-> "", code |-> "", msg |-> "", body |-> "none",
     id |-> "", created |-> 0, model |-> "", prompt_tokens |-> 0, completion_tokens |-> 0,
     total_tokens |-> 0]

ErrorResponse(status, etype, code, msg) ==
    [NoResponse EXCEPT !.status = status, !.body = "error", !.etype = etype,
                       !.code = code, !.msg = msg]

\* f"http_{exc.status_code}"
HttpCode(status) ==
    CASE status = 400 -> "http_400"
      [] status = 401 -> "http_401"
      [] status = 500 -> "http_500"
      [] OTHER -> "http_"

\* The handler FastAPI runs for an HTTPException that leaves an endpoint.
http_exception_handler(exc) ==
    IF exc.etype # ""
    THEN ErrorResponse(exc.status, exc.etype, exc.code, exc.msg)
    ELSE ErrorResponse(exc.status, "api_error", HttpCode(exc.status), exc.msg)

(***************************************************************************)
(* RequestResolver: the synchronous part of chat_completions.              *)
(***************************************************************************)
Returned(v) == [exc |-> NoExc, raised |-> FALSE, value |-> v]
Raised(e) == [exc |-> e, raised |-> TRUE, value |-> None]

\* extract_user_query falling back on the last message of any role.
extract_last_message(messages) ==
    IF messages = <<>>
    THEN Raised(HTTPException(400, "invalid_request_error", "no_user_message",
                              "No user message found in request"))
    ELSE Returned(messages[Len(messages)].content)

\* extract_user_query scanning from the oldest message ('for message in messages').
RECURSIVE extract_first_user_message(_)
extract_first_user_message(messages) ==
    IF messages = <<>>
    THEN Raised(HTTPException(400, "invalid_request_error", "no_user_message",
                              "No user message found in request"))
    ELSE IF Head(messages).role = "user"
         THEN Returned(Head(messages).content)
         ELSE extract_first_user_message(Tail(messages))

RECURSIVE extract_user_query(_)
extract_user_query(messages) ==
    IF messages = <<>>
    THEN Raised(HTTPException(400, "invalid_request_error", "no_user_message",
                              "No user message found in request"))
    ELSE LET message == messages[Len(messages)]
         IN IF message.role = "user"
            THEN Returned(message.content)
            ELSE extract_user_query(SubSeq(messages, 1, Len(messages) - 1))

\* DEFAULT_NOTEBOOK_ID or request.notebook_id
resolve_default_first(requested, default) ==
    IF Truthy(default) THEN default ELSE requested

\* request.notebook_id or DEFAULT_NOTEBOOK_ID
resolve_notebook_id(requested, default) ==
    IF Truthy(requested) THEN requested ELSE default

\* chat_completions extracting the query before it resolves the notebook id.
resolve_request_query_first(api_key, default, rq) ==
    IF ~verify_api_key(api_key, rq.authorization)
    THEN Raised(HTTPException(401, "", "", "Invalid API key"))
    ELSE LET query == extract_user_query(rq.messages)
             notebook_id == resolve_notebook_id(rq.notebook_id, default)
         IN IF query.raised THEN query
            ELSE IF ~Truthy(notebook_id)
                 THEN Raised(HTTPException(400, "invalid_request_error",
                                           "missing_notebook_id", "notebook_id is required"))
                 ELSE Returned([model |-> rq.model, query |-> query.value,
                                notebook_id |-> notebook_id])

\* Lines 276-294 of chat_completions: the checks in the order they run.
\* Returns the (notebook_id, query, model) of the backend call, or raises.
resolve_request(api_key, default, rq) ==
    IF ~verify_api_key(api_key, rq.authorization)
    THEN Raised(HTTPException(401, "", "", "Invalid API key"))
    ELSE LET notebook_id == resolve_notebook_id(rq.notebook_id, default)
         IN IF ~Truthy(notebook_id)
            THEN Raised(HTTPException(400, "invalid_request_error", "missing_notebook_id",
                                      "notebook_id is required"))
            ELSE LET query == extract_user_query(rq.messages)
                 IN IF query.raised THEN query
                    ELSE Returned([model |-> rq.model, query |-> query.value,
                                   notebook_id |-> notebook_id])

NoCall == [model |-> "", query |-> None, notebook_id |-> None]

(***************************************************************************)
(* State.                                                                  *)
(***************************************************************************)
VARIABLES
    API_KEY,              \* os.getenv("API_KEY", "")
    DEFAULT_NOTEBOOK_ID,  \* os.getenv("NOTEBOOKLM_NOTEBOOK_ID", "")
    CLEAN_MARKDOWN,       \* the CLEAN_MARKDOWN flag
    pc,                   \* per request: where its task stands
    request,              \* per request: the request as received
    call,                 \* per request: the arguments resolved for the backend call
    session,              \* per request: the backend session it acquired (0: none)
    opened,               \* sessions whose client scope has been entered and not exited
    sessions,             \* number of backend sessions created so far
    asks,                 \* per request: number of invocations of client.chat.ask
    exc,                  \* per request: the exception in flight while the scope unwinds
    result,               \* per request: result.answer, the raw answer (None before the ask returns)
    completion,           \* per request: completion_id and created (id "": not drawn yet)
    answer,               \* per request: the processed answer (None before the ask returns)
    i,                    \* per request: the loop variable of the chunk loop
    events,               \* per request: the server-sent events emitted so far
    response              \* per request: the HTTP response (status 0: none yet)

vars == <<API_KEY, DEFAULT_NOTEBOOK_ID, CLEAN_MARKDOWN, pc, request, call, session,
          opened, sessions, asks, exc, result, completion, answer, i, events, response>>

config == <<API_KEY, DEFAULT_NOTEBOOK_ID, CLEAN_MARKDOWN>>

\* completion_id = f"chatcmpl-{uuid.uuid4().hex[:8]}", created = int(time.time())
NoCompletion == [id |-> "", created |-> 0]

\* The values uuid4 and the clock may give: two requests may draw the same.
Completions == {[id |-> "chatcmpl-1", created |-> 1], [id |-> "chatcmpl-2", created |-> 2]}

NoRequest ==
    [authorization |-> None, model |-> "", messages |-> <<>>, notebook_id |-> None,
     endpoint |-> "none", stream |-> FALSE]

InitRequests ==
    /\ pc = [r \in Requests |-> "idle"]
    /\ request = [r \in Requests |-> NoRequest]
    /\ call = [r \in Requests |-> NoCall]
    /\ session = [r \in Requests |-> 0]
    /\ opened = {}
    /\ sessions = 0
    /\ asks = [r \in Requests |-> 0]
    /\ exc = [r \in Requests |-> NoExc]
    /\ result = [r \in Requests |-> None]
    /\ completion = [r \in Requests |-> NoCompletion]
    /\ answer = [r \in Requests |-> None]
    /\ i = [r \in Requests |-> 0]
    /\ events = [r \in Requests |-> <<>>]
    /\ response = [r \in Requests |-> NoResponse]

(***************************************************************************)
(* What the handlers produce.                                              *)
(***************************************************************************)
NoEventFields == [content |-> None, kind |-> "none", etype |-> "", code |-> "", msg |-> "",
                  id |-> "", created |-> 0, model |-> "", finish_reason |-> ""]

\* ChatCompletionChunk with choices[0] = {delta: {content}, finish_reason: None}
DeltaChunk(c, model, content) ==
    [NoEventFields EXCEPT !.kind = "delta", !.id = c.id, !.created = c.created,
                          !.model = model, !.content = content, !.finish_reason = "null"]

\* ChatCompletionChunk with choices[0] = {delta: {}, finish_reason: "stop"}
FinalMarker(c, model) ==
    [NoEventFields EXCEPT !.kind = "final", !.id = c.id, !.created = c.created,
                          !.model = model, !.finish_reason = "stop"]

\* "data: [DONE]\n\n"
DoneSentinel == [NoEventFields EXCEPT !.kind = "done"]

\* str(e); starlette's HTTPException prints "<status_code>: <detail>"
StrOf(e) == IF e.kind = "HTTPException" THEN "500: Authentication failed" ELSE e.msg

\* The error_chunk of stream_chat_completion's except clause.
ErrorEvent(e) ==
    [NoEventFields EXCEPT !.kind = "error", !.etype = "server_error",
                          !.code = "streaming_failed", !.msg = StrOf(e)]

\* The HTTPException raised by non_stream_chat_completion's except clause.
ProcessingFailed(e) == HTTPException(500, "server_error", "processing_failed", StrOf(e))

\* The exception get_notebooklm_client raises when it cannot build the client.
AuthFailed == HTTPException(500, "authentication_error", "auth_failed", "Authentication failed")

\* CompletionResponse with usage counted in characters (len(text)).
CompletionResponse_chars(c, model, query, text) ==
    [NoResponse EXCEPT !.status = 200, !.body = "completion", !.content = text,
                       !.id = c.id, !.created = c.created, !.model = model,
                       !.prompt_tokens = Len(query),
                       !.completion_tokens = Len(text),
                       !.total_tokens = Len(query) + Len(text)]

\* ChatCompletionResponse of non_stream_chat_completion.
CompletionResponse(c, model, query, text) ==
    [NoResponse EXCEPT !.status = 200, !.body = "completion", !.content = text,
                       !.id = c.id, !.created = c.created, !.model = model,
                       !.prompt_tokens = Len(split(query)),
                       !.completion_tokens = Len(split(text)),
                       !.total_tokens = Len(split(query)) + Len(split(text))]

\* StreamingResponse(..., media_type="text/event-stream")
StreamingResponse == [NoResponse EXCEPT !.status = 200, !.body = "event-stream"]

ModelList == [NoResponse EXCEPT !.status = 200, !.body = "models"]

\* NotebookLMClient(auth): every call builds a new client, hence a new session.
NewSession(n) == n + 1

\* A release that only runs when the body ends normally (no 'async with').
AfterScopeExitOnSuccess(open, s, e) == IF e.kind = "none" THEN open \ {s} ELSE open

\* Leaving 'async with ... as client': __aexit__ runs whatever exception e
\* is in flight.
AfterScopeExit(open, s, e) == open \ {s}

(***************************************************************************)
(* Inputs of the environment.                                              *)
(***************************************************************************)
Key == <<"k">>
Nb == <<"n">>
Hello == <<"h", "i", " ", "y", "o", "u">>

SystemMsg == [content |-> <<"s">>, role |-> "system"]
UserMsg == [content |-> Hello, role |-> "user"]

\* The requests of the life-cycle specification: a valid one, one without a
\* credential, one without a notebook id, one without a user message, one
\* with none of the three; each streaming and not.
ChatRequest(authorization, notebook_id, messages, stream) ==
    [authorization |-> authorization, model |-> "notebooklm", messages |-> messages,
     notebook_id |-> notebook_id, endpoint |-> "chat", stream |-> stream]

SmallRequests ==
    { ChatRequest(rq[1], rq[2], rq[3], stream) :
        rq \in { <<Key, Nb, <<SystemMsg, UserMsg>> >>,
                 <<None, Nb, <<UserMsg>> >>,
                 <<Key, None, <<UserMsg, SystemMsg>> >>,
                 <<Key, Nb, <<SystemMsg>> >>,
                 <<None, None, <<>> >> },
        stream \in BOOLEAN }

\* Raw answers the backend may return in the request life cycle.
RawAnswers ==
    { <<>>,
      <<"a", " ", " ", "b", NL, NL, NL, NL, "c", NL>>,
      <<"a", NL, "#", " ", "b">> }

\* str(e) of the exceptions client.chat.ask may raise.
ExcMessages == {"", "backend down"}

(***************************************************************************)
(* Endpoints.                                                              *)
(***************************************************************************)
list_models_from(r, Headers) ==
    /\ pc[r] = "idle"
    /\ \E authorization \in Headers :
         /\ request' = [request EXCEPT ![r] =
                [NoRequest EXCEPT !.endpoint = "models", !.authorization = authorization]]
         /\ IF ~verify_api_key(API_KEY, authorization)
            THEN /\ response' = [response EXCEPT ![r] =
                        http_exception_handler(HTTPException(401, "", "", "Invalid API key"))]
                 /\ pc' = [pc EXCEPT ![r] = "failed"]
            ELSE /\ response' = [response EXCEPT ![r] = ModelList]
                 /\ pc' = [pc EXCEPT ![r] = "done"]
    /\ UNCHANGED <<config, result, completion, call, session, opened, sessions, asks, exc, answer, i, events>>

\* chat_completions up to the dispatch on request.stream.  The code has no
\* await before the dispatch, so this is one step.  A stream's generator
\* draws its completion id and timestamp before its first await.
chat_completions_from(r, Inputs) ==
    /\ pc[r] = "idle"
    /\ \E rq \in Inputs :
         LET res == resolve_request(API_KEY, DEFAULT_NOTEBOOK_ID, rq)
         IN /\ request' = [request EXCEPT ![r] = rq]
            /\ IF res.raised
               THEN /\ response' = [response EXCEPT ![r] = http_exception_handler(res.exc)]
                    /\ pc' = [pc EXCEPT ![r] = "failed"]
                    /\ call' = call
                    /\ completion' = completion
               ELSE /\ call' = [call EXCEPT ![r] = res.value]
                    /\ pc' = [pc EXCEPT ![r] = "construct"]
                    /\ IF rq.stream
                       THEN /\ response' = [response EXCEPT ![r] = StreamingResponse]
                            /\ \E c \in Completions :
                                 completion' = [completion EXCEPT ![r] = c]
                       ELSE /\ response' = response
                            /\ completion' = completion
    /\ UNCHANGED <<config, result, session, opened, sessions, asks, exc, answer, i, events>>

(***************************************************************************)
(* The life cycle shared by non_stream_chat_completion and                 *)
(* stream_chat_completion: try / async with / ask / except.                *)
(***************************************************************************)
\* words kept in one module-level variable that every request overwrites.
Words_shared(r) == split(answer[CHOOSE q \in Requests : answer[q] # None])

\* words = answer.split(), a local of the generator
Words(r) == split(answer[r])

Emit(r, ev) == events' = [events EXCEPT ![r] = Append(@, ev)]

\* A streaming function whose except clause raises HTTPException(500) as
\* the non-streaming one does, instead of yielding an error event.
stream_leave_http(r, e) ==
    /\ events' = events
    /\ IF e = NoExc
       THEN pc' = [pc EXCEPT ![r] = "done"] /\ response' = response
       ELSE IF CaughtByExceptException(e)
            THEN /\ pc' = [pc EXCEPT ![r] = "failed"]
                 /\ response' = [response EXCEPT ![r] =
                        http_exception_handler(ProcessingFailed(e))]
            ELSE pc' = [pc EXCEPT ![r] = "cancelled"] /\ response' = response

\* stream_chat_completion is left with e in flight (NoExc: it ran to its end).
stream_leave(r, e) ==
    /\ response' = response
    /\ IF e = NoExc
       THEN pc' = [pc EXCEPT ![r] = "done"] /\ events' = events
       ELSE IF CaughtByExceptException(e)
            THEN pc' = [pc EXCEPT ![r] = "failed"] /\ Emit(r, ErrorEvent(e))
            ELSE pc' = [pc EXCEPT ![r] = "cancelled"] /\ events' = events

\* non_stream_chat_completion is left with e in flight (NoExc: it returned).
\* An HTTPException that leaves the endpoint goes to http_exception_handler.
non_stream_leave(r, e) ==
    /\ events' = events
    /\ IF e = NoExc
       THEN /\ pc' = [pc EXCEPT ![r] = "done"]
            /\ response' = [response EXCEPT ![r] =
                   CompletionResponse(completion[r], call[r].model, call[r].query,
                                      answer[r])]
       ELSE IF CaughtByExceptException(e)
            THEN /\ pc' = [pc EXCEPT ![r] = "failed"]
                 /\ response' = [response EXCEPT ![r] =
                        http_exception_handler(ProcessingFailed(e))]
            ELSE IF e.kind = "HTTPException"
                 THEN /\ pc' = [pc EXCEPT ![r] = "failed"]
                      /\ response' = [response EXCEPT ![r] = http_exception_handler(e)]
                 ELSE /\ pc' = [pc EXCEPT ![r] = "cancelled"]
                      /\ response' = response

Leave(r, e) ==
    IF request[r].stream THEN stream_leave(r, e) ELSE non_stream_leave(r, e)

\* await get_notebooklm_client() raises, or entering the client scope does.
ClientFailed(r) ==
    /\ pc[r] = "construct"
    /\ \E e \in {AuthFailed, PlainException("cannot open session")} :
         /\ exc' = [exc EXCEPT ![r] = e]
         /\ Leave(r, e)
    /\ UNCHANGED <<config, result, completion, request, call, session, opened, sessions, asks, answer, i>>

\* The client is built and its scope entered; client.chat.ask is invoked and
\* the task waits for its result.
ClientReady(r) ==
    /\ pc[r] = "construct"
    /\ sessions' = NewSession(sessions)
    /\ session' = [session EXCEPT ![r] = sessions']
    /\ opened' = opened \cup {sessions'}
    /\ asks' = [asks EXCEPT ![r] = @ + 1]
    /\ pc' = [pc EXCEPT ![r] = "ask"]
    /\ UNCHANGED <<config, result, completion, request, call, exc, answer, i, events, response>>

\* client.chat.ask raises and the error event is yielded by an except
\* clause inside the client scope, before the scope is left.
AskFailed_report_inside(r) ==
    /\ pc[r] = "ask"
    /\ \E m \in ExcMessages :
         /\ exc' = [exc EXCEPT ![r] = PlainException(m)]
         /\ IF request[r].stream
            THEN Emit(r, ErrorEvent(PlainException(m)))
            ELSE events' = events
    /\ pc' = [pc EXCEPT ![r] = "release"]
    /\ UNCHANGED <<config, result, completion, request, call, session, opened, sessions,
                   asks, answer, i, response>>

\* client.chat.ask raises and is invoked a second time.
AskFailedRetry(r) ==
    /\ pc[r] = "ask"
    /\ asks[r] < 2
    /\ asks' = [asks EXCEPT ![r] = @ + 1]
    /\ UNCHANGED <<config, result, completion, pc, request, call, session, opened, sessions, exc, answer, i,
                   events, response>>

\* client.chat.ask raises.
AskFailed(r) ==
    /\ pc[r] = "ask"
    /\ \E m \in ExcMessages : exc' = [exc EXCEPT ![r] = PlainException(m)]
    /\ pc' = [pc EXCEPT ![r] = "release"]
    /\ UNCHANGED <<config, result, completion, request, call, session, opened, sessions, asks, answer, i,
                   events, response>>

\* client.chat.ask returns; the answer is post-processed.  The streaming
\* function goes on to its chunk loop, the other one builds its response and
\* leaves the client scope.
AskReturnedFrom(r, Answers) ==
    /\ pc[r] = "ask"
    /\ \E raw \in Answers :
         /\ result' = [result EXCEPT ![r] = raw]
         /\ answer' = [answer EXCEPT ![r] = process_answer(CLEAN_MARKDOWN, raw)]
    /\ i' = [i EXCEPT ![r] = 0]
    /\ IF request[r].stream
       THEN /\ pc' = [pc EXCEPT ![r] = "emit"]
            /\ completion' = completion
       ELSE /\ pc' = [pc EXCEPT ![r] = "release"]
            /\ \E c \in Completions : completion' = [completion EXCEPT ![r] = c]
    /\ UNCHANGED <<config, request, call, session, opened, sessions, asks, exc,
                   events, response>>

\* One iteration of the chunk loop up to its yield.
EmitChunk(r) ==
    /\ pc[r] = "emit"
    /\ i[r] < Len(Words(r))
    /\ Emit(r, DeltaChunk(completion[r], call[r].model, chunk_content(Words(r), i[r])))
    /\ pc' = [pc EXCEPT ![r] = "sleep"]
    /\ UNCHANGED <<config, result, completion, request, call, session, opened, sessions, asks, exc, answer,
                   i, response>>

\* The pacing delay of a loop that does not advance its index.
SleepDone_stuck(r) ==
    /\ pc[r] = "sleep"
    /\ pc' = [pc EXCEPT ![r] = "emit"]
    /\ UNCHANGED <<config, result, completion, request, call, session, opened, sessions,
                   asks, exc, answer, i, events, response>>

\* await asyncio.sleep(0.05) returns; range() advances.
SleepDone(r) ==
    /\ pc[r] = "sleep"
    /\ i' = [i EXCEPT ![r] = @ + chunk_size(Words(r))]
    /\ pc' = [pc EXCEPT ![r] = "emit"]
    /\ UNCHANGED <<config, result, completion, request, call, session, opened, sessions, asks, exc, answer,
                   events, response>>

\* The loop is over: yield the final chunk.
EmitFinal(r) ==
    /\ pc[r] = "emit"
    /\ i[r] >= Len(Words(r))
    /\ Emit(r, FinalMarker(completion[r], call[r].model))
    /\ pc' = [pc EXCEPT ![r] = "final"]
    /\ UNCHANGED <<config, result, completion, request, call, session, opened, sessions, asks, exc, answer,
                   i, response>>

\* yield "data: [DONE]\n\n"
EmitDone(r) ==
    /\ pc[r] = "final"
    /\ Emit(r, DoneSentinel)
    /\ pc' = [pc EXCEPT ![r] = "sentinel"]
    /\ UNCHANGED <<config, result, completion, request, call, session, opened, sessions, asks, exc, answer,
                   i, response>>

AtScopeExit(r) == pc[r] \in {"release", "sentinel"}

\* __aexit__ returns: the exception in flight, if any, goes on.
ReleaseOk(r) ==
    /\ AtScopeExit(r)
    /\ opened' = AfterScopeExit(opened, session[r], exc[r])
    /\ Leave(r, exc[r])
    /\ UNCHANGED <<config, result, completion, request, call, session, sessions, asks, exc, answer, i>>

\* __aexit__ raises: its exception replaces the one in flight.  When the task
\* was cancelled the handler's output reaches nobody (GeneratorExit) or may
\* or may not be delivered (CancelledError).
ReleaseFailed(r) ==
    /\ AtScopeExit(r)
    /\ opened' = AfterScopeExit(opened, session[r], exc[r])
    /\ \E delivered \in BOOLEAN :
         LET e == PlainException("close failed")
         IN /\ exc' = [exc EXCEPT ![r] = e]
            /\ IF exc[r].kind = "GeneratorExit"
                  \/ (exc[r].kind = "CancelledError" /\ ~delivered)
               THEN /\ pc' = [pc EXCEPT ![r] = "cancelled"]
                    /\ UNCHANGED <<events, response>>
               ELSE Leave(r, e)
    /\ UNCHANGED <<config, result, completion, request, call, session, sessions, asks, answer, i>>

\* The client goes away: the task is cancelled at an await (CancelledError)
\* or the suspended generator is closed at a yield (GeneratorExit).
Cancel(r) ==
    /\ \/ /\ pc[r] = "construct"
          /\ exc' = [exc EXCEPT ![r] = BaseExc("CancelledError")]
          /\ pc' = [pc EXCEPT ![r] = "cancelled"]
       \/ /\ pc[r] \in {"ask", "sleep"}
          /\ exc' = [exc EXCEPT ![r] = BaseExc("CancelledError")]
          /\ pc' = [pc EXCEPT ![r] = "release"]
       \/ /\ pc[r] \in {"sleep", "final", "sentinel"}
          /\ exc' = [exc EXCEPT ![r] = BaseExc("GeneratorExit")]
          /\ pc' = [pc EXCEPT ![r] = "release"]
    /\ UNCHANGED <<config, result, completion, request, call, session, opened, sessions, asks, answer, i,
                   events, response>>

(***************************************************************************)
(* The server: two concurrent requests, small inputs.                      *)
(***************************************************************************)
list_models(r) == list_models_from(r, {None, Key})
chat_completions(r) == chat_completions_from(r, SmallRequests)
AskReturned(r) == AskReturnedFrom(r, RawAnswers)

\* A server with an API key and no default notebook, in either markdown mode.
Init ==
    /\ API_KEY = Key
    /\ DEFAULT_NOTEBOOK_ID = <<>>
    /\ CLEAN_MARKDOWN \in BOOLEAN
    /\ InitRequests

Next ==
    \E r \in Requests :
        \/ list_models(r)
        \/ chat_completions(r)
        \/ ClientFailed(r)
        \/ ClientReady(r)
        \/ AskFailed(r)
        \/ AskReturned(r)
        \/ EmitChunk(r)
        \/ SleepDone(r)
        \/ EmitFinal(r)
        \/ EmitDone(r)
        \/ ReleaseOk(r)
        \/ ReleaseFailed(r)
        \/ Cancel(r)

Spec == Init /\ [][Next]_vars


(***************************************************************************)
(* verify_api_key over all short keys and headers (both endpoints).        *)
(***************************************************************************)
Strings(A, n) == UNION {[1..k -> A] : k \in 0..n}

AuthBodies == Strings({"k", "x"}, MaxAuthLen)

AuthTokens == AuthBodies \ {<<>>}

\* "" (no key configured), every short key, every short key that itself
\* begins with "Bearer ".
AuthKeys == AuthBodies \cup {Bearer \o b : b \in AuthTokens}

\* No header, the empty header, "Bearer" alone, and every short token raw,
\* behind "Bearer " and behind "Bearer Bearer ".
AuthHeaders ==
    {None, <<"B", "e", "a", "r", "e", "r">>}
        \cup AuthBodies
        \cup {Bearer \o b : b \in AuthTokens}
        \cup {Bearer \o Bearer \o b : b \in AuthTokens}

list_models_auth(r) == list_models_from(r, AuthHeaders)

chat_completions_auth(r) ==
    chat_completions_from(r, {ChatRequest(h, Nb, <<UserMsg>>, FALSE) : h \in AuthHeaders})

InitAuth ==
    /\ API_KEY \in AuthKeys
    /\ DEFAULT_NOTEBOOK_ID = <<>>
    /\ CLEAN_MARKDOWN = FALSE
    /\ InitRequests

NextAuth == \E r \in {"r1"} : list_models_auth(r) \/ chat_completions_auth(r)

SpecAuth == InitAuth /\ [][NextAuth]_vars

(***************************************************************************)
(* Request resolution over all short requests.                             *)
(***************************************************************************)
Messages == [content : {<<"p">>, <<"q", " ", "q">>}, role : {"system", "user", "assistant"}]

MessageLists == UNION {[1..k -> Messages] : k \in 0..MaxMsgs}

AllRequests ==
    [authorization : {None, <<>>, Key, Bearer \o Key, <<"x">>},
     model : {"notebooklm", "gpt-4"}, messages : MessageLists, notebook_id : {None, <<>>, Nb},
     endpoint : {"chat"}, stream : BOOLEAN]

chat_completions_any(r) == chat_completions_from(r, AllRequests)

NextResolve == \E r \in {"r1"} : chat_completions_any(r)

InitResolve ==
    /\ API_KEY \in {<<>>, Key}
    /\ DEFAULT_NOTEBOOK_ID \in {<<>>, <<"d">>}
    /\ CLEAN_MARKDOWN \in BOOLEAN
    /\ InitRequests

SpecResolve == InitResolve /\ [][NextResolve]_vars

(***************************************************************************)
(* The successful stream over all short answers and some long ones.        *)
(***************************************************************************)
TextAlphabet == {"a", "#", " ", NL}

Separators == << <<" ">>, <<NL>>, <<" ", " ">>, <<NL, NL, NL, NL, NL>>,
                 <<NL, NL, NL>>, <<NL, NL, NL, NL>> >>

\* n words; every third separator is Separators[k], the others one space.
LongAnswer(n, k) ==
    Concat([j \in 1..(2 * n - 1) |->
              IF j % 2 = 1 THEN (IF j % 4 = 1 THEN <<"a">> ELSE <<"b", "b">>)
              ELSE IF j % 6 = 0 THEN Separators[k] ELSE <<" ">>])

TextAnswers ==
    Strings(TextAlphabet, MaxTextLen)
        \cup {LongAnswer(n, k) : n \in 0..MaxWords, k \in 1..Len(Separators)}

chat_completions_stream(r) ==
    chat_completions_from(r, {ChatRequest(Key, Nb, <<UserMsg>>, TRUE)})

AskReturnedAny(r) == AskReturnedFrom(r, TextAnswers)

NextStream ==
    \E r \in {"r1"} :
        \/ chat_completions_stream(r)
        \/ ClientReady(r)
        \/ AskReturnedAny(r)
        \/ EmitChunk(r)
        \/ SleepDone(r)
        \/ EmitFinal(r)
        \/ EmitDone(r)
        \/ ReleaseOk(r)

SpecStream == Init /\ [][NextStream]_vars

(***************************************************************************)
(* One request under fair scheduling: every outcome of every await, short  *)
(* answers and one of 21 words.                                            *)
(***************************************************************************)
LiveAnswers == RawAnswers \cup {LongAnswer(ChunkTarget + 1, 1)}

AskReturnedLive(r) == AskReturnedFrom(r, LiveAnswers)

\* The steps of r's task that the event loop, the backend and the reading
\* client take for it: every await returns or raises and every yielded
\* event is consumed, unless the client goes away (Cancel).
Step(r) ==
    \/ ClientFailed(r)
    \/ ClientReady(r)
    \/ AskFailed(r)
    \/ AskReturnedLive(r)
    \/ EmitChunk(r)
    \/ SleepDone(r)
    \/ EmitFinal(r)
    \/ EmitDone(r)
    \/ ReleaseOk(r)
    \/ ReleaseFailed(r)

NextLive ==
    \E r \in {"r1"} :
        \/ list_models(r)
        \/ chat_completions(r)
        \/ Step(r)
        \/ Cancel(r)

\* The server when no await hangs.
SpecLive == Init /\ [][NextLive]_vars /\ WF_vars(Step("r1"))

(***************************************************************************)
(* Properties.                                                             *)
(***************************************************************************)
Terminal(r) == pc[r] \in {"done", "failed", "cancelled"}

\* The request was received by chat_completions.
Received(r) == request[r].endpoint = "chat" /\ pc[r] # "idle"

\* The request passed validation and stream_chat_completion was started.
Streamed(r) == Received(r) /\ request[r].stream /\ call[r] # NoCall

HasKind(r, kind) == \E k \in 1..Len(events[r]) : events[r][k].kind = kind

LastEvent(r) == events[r][Len(events[r])]

\* The contents of the DeltaChunk events of r, in emission order.
DeltaContents(r) ==
    LET deltas == SelectSeq(events[r], LAMBDA e : e.kind = "delta")
    IN [k \in 1..Len(deltas) |-> deltas[k].content]

NoUserMessage(r) ==
    \A k \in 1..Len(request[r].messages) : request[r].messages[k].role # "user"

AuthPassed(r) == verify_api_key(API_KEY, request[r].authorization)

\* C1: a stream that ran to its end, whatever the outcome of client
\* construction, ask, emission and release, ends with [DONE] and holds no
\* error event, or ends with an error event and holds no [DONE].
C1_DoneXorError ==
    \A r \in Requests :
        (Streamed(r) /\ pc[r] \in {"done", "failed"}) =>
            /\ Len(events[r]) > 0
            /\ \/ LastEvent(r).kind = "done" /\ ~HasKind(r, "error")
               \/ LastEvent(r).kind = "error" /\ ~HasKind(r, "done")

\* C2: the contents of the DeltaChunk events of a successful stream,
\* concatenated in emission order, are the processed answer text.
C2_DeltasRebuildAnswer ==
    \A r \in Requests :
        (Streamed(r) /\ pc[r] = "done") => Concat(DeltaContents(r)) = answer[r]

\* C3: a request that has ended (done, failed or cancelled) holds no open
\* session, and no two requests ever have the same session.
C3_SessionsReleased ==
    /\ \A r \in Requests : Terminal(r) => session[r] \notin opened
    /\ \A r1, r2 \in Requests :
         (r1 # r2 /\ session[r1] # 0) => session[r1] # session[r2]

\* A stream cancelled after its first chunk has left its session's scope,
\* while another request holds a session of its own.
C3_Witness ==
    \E r1, r2 \in Requests :
        /\ r1 # r2
        /\ pc[r1] = "cancelled" /\ Streamed(r1) /\ HasKind(r1, "delta")
        /\ session[r1] # 0 /\ session[r1] \notin opened
        /\ session[r2] # 0

\* C4: client.chat.ask is invoked once for a request that acquired its
\* session and never otherwise (not after a failed resolution or a failed
\* client construction), and never a second time: once an exception is in
\* flight the request only unwinds to its terminal state.
C4_AskOnce ==
    \A r \in Requests :
        /\ asks[r] = (IF session[r] # 0 THEN 1 ELSE 0)
        /\ call[r] = NoCall => asks[r] = 0
        /\ exc[r] # NoExc => pc[r] \in {"release", "failed", "cancelled"}

\* One request failed in its single ask, the other failed resolution.
C4_Witness ==
    \E r1, r2 \in Requests :
        /\ pc[r1] = "failed" /\ exc[r1] = PlainException("backend down") /\ asks[r1] = 1
        /\ pc[r2] = "failed" /\ Received(r2) /\ call[r2] = NoCall /\ asks[r2] = 0

\* C5 as stated: every chat request without a user message gets 400
\* no_user_message.
C5_AlwaysNoUserMessage ==
    \A r \in Requests :
        (Received(r) /\ NoUserMessage(r)) =>
            response[r].status = 400 /\ response[r].code = "no_user_message"

\* C5: a chat request without a user message that passes the auth check
\* and has a notebook id (its own or the default) gets 400 no_user_message.
C5_NoUserMessage ==
    \A r \in Requests :
        (/\ Received(r) /\ NoUserMessage(r)
         /\ AuthPassed(r)
         /\ (Truthy(request[r].notebook_id) \/ Truthy(DEFAULT_NOTEBOOK_ID))) =>
            /\ response[r].status = 400
            /\ response[r].code = "no_user_message"
            /\ pc[r] = "failed"

\* Two messages of other roles, no user message.
C5_Witness ==
    \E r \in Requests :
        /\ Received(r) /\ NoUserMessage(r) /\ Len(request[r].messages) = 2
        /\ request[r].messages[1].role # request[r].messages[2].role
        /\ response[r].code = "no_user_message"

\* C6 as stated: with neither notebook id set the response is 400
\* missing_notebook_id; otherwise the backend call uses the request's id if
\* set and else the default.
C6_AlwaysMissingNotebook ==
    \A r \in Requests :
        Received(r) =>
            IF ~Truthy(request[r].notebook_id) /\ ~Truthy(DEFAULT_NOTEBOOK_ID)
            THEN response[r].status = 400 /\ response[r].code = "missing_notebook_id"
            ELSE call[r] # NoCall =>
                   call[r].notebook_id = (IF Truthy(request[r].notebook_id)
                                          THEN request[r].notebook_id
                                          ELSE DEFAULT_NOTEBOOK_ID)

\* C6: for a request that passes the auth check: with neither notebook id
\* set (None or empty) the response is 400 missing_notebook_id; otherwise
\* the backend call uses the request's id if set and else the default.
C6_MissingNotebook ==
    \A r \in Requests :
        (Received(r) /\ AuthPassed(r)) =>
            IF ~Truthy(request[r].notebook_id) /\ ~Truthy(DEFAULT_NOTEBOOK_ID)
            THEN /\ response[r].status = 400
                 /\ response[r].code = "missing_notebook_id"
                 /\ call[r] = NoCall
            ELSE call[r] # NoCall =>
                   call[r].notebook_id = (IF Truthy(request[r].notebook_id)
                                          THEN request[r].notebook_id
                                          ELSE DEFAULT_NOTEBOOK_ID)

\* A key is configured, the credential matches, no notebook id anywhere.
C6_Witness ==
    \E r \in Requests :
        /\ Received(r) /\ API_KEY = Key /\ request[r].authorization = Bearer \o Key
        /\ request[r].notebook_id = <<>> /\ DEFAULT_NOTEBOOK_ID = <<>>
        /\ response[r].code = "missing_notebook_id"

\* C7: with a key configured, the header "Bearer <key>" and the header
\* that is the raw key pass the auth check and every other header (or none)
\* gets 401; with no key configured every request passes.
C7_AuthCheck ==
    \A r \in Requests :
        pc[r] # "idle" =>
            IF ~Truthy(API_KEY) THEN response[r].status # 401
            ELSE IF request[r].authorization \in {API_KEY, Bearer \o API_KEY}
                 THEN response[r].status # 401
                 ELSE response[r].status = 401

\* C8: a request that failed after resolution (client construction,
\* backend authentication, ask) is answered with type server_error: HTTP 500
\* with the envelope when not streaming, an error event when streaming.
C8_BackendFailureIsServerError ==
    \A r \in Requests :
        (Received(r) /\ pc[r] = "failed" /\ call[r] # NoCall) =>
            IF request[r].stream
            THEN /\ Len(events[r]) > 0
                 /\ LastEvent(r).kind = "error"
                 /\ LastEvent(r).etype = "server_error"
                 /\ \A k \in 1..Len(events[r]) :
                      events[r][k].kind = "error" => events[r][k].etype = "server_error"
            ELSE /\ response[r].status = 500
                 /\ response[r].body = "error"
                 /\ response[r].etype = "server_error"

\* Client construction failed with get_notebooklm_client's HTTPException
\* on the non-streaming path.
C8_Witness ==
    \E r \in Requests :
        /\ Received(r) /\ ~request[r].stream /\ pc[r] = "failed"
        /\ exc[r] = AuthFailed
        /\ response[r].status = 500

\* The events of a complete successful stream of r's answer.
NumChunks(words) == (Len(words) + chunk_size(words) - 1) \div chunk_size(words)

ExpectedStream(r) ==
    [k \in 1..NumChunks(Words(r)) |->
        DeltaChunk(completion[r], call[r].model,
                   chunk_content(Words(r), (k - 1) * chunk_size(Words(r))))]
      \o <<FinalMarker(completion[r], call[r].model), DoneSentinel>>

\* C9: once the sentinel is out the stream is: one DeltaChunk per fragment
\* in order, one FinalMarker, the sentinel, and nothing else.
C9_SuccessOrder ==
    \A r \in Requests :
        (Streamed(r) /\ HasKind(r, "done")) => events[r] = ExpectedStream(r)

\* C10: the words of the fragments, in emission order, are the words of
\* the processed answer; the first fragment begins with a word and every
\* other one with exactly one space.
C10_WordsPreserved ==
    \A r \in Requests :
        (Streamed(r) /\ HasKind(r, "final")) =>
            LET f == DeltaContents(r)
            IN /\ Concat([k \in 1..Len(f) |-> split(f[k])]) = split(answer[r])
               /\ \A k \in 1..Len(f) :
                    /\ Len(f[k]) >= 1
                    /\ IF k = 1 THEN ~IsSpace(f[k][1])
                       ELSE f[k][1] = " " /\ Len(f[k]) >= 2 /\ ~IsSpace(f[k][2])

\* A finished stream of at least 40 words, so that fragments hold two words.
C10_Witness ==
    \E r \in Requests :
        /\ Streamed(r) /\ pc[r] = "done"
        /\ Len(split(answer[r])) >= 2 * ChunkTarget
        /\ Len(DeltaContents(r)) >= ChunkTarget
        /\ \E k \in 1..Len(DeltaContents(r)) : Len(split(DeltaContents(r)[k])) = 2

\* C11: the fragments of a stream are consecutive runs of exactly
\* max(1, word_count \div 20) words, only the last one may be shorter, and
\* there are never more than 20 of them.
C11_AtMostTwentyChunks ==
    \A r \in Requests :
        (Streamed(r) /\ HasKind(r, "final")) =>
            LET f == DeltaContents(r)
                size == Max(1, Len(split(answer[r])) \div ChunkTarget)
            IN /\ \A k \in 1..Len(f) :
                    IF k < Len(f) THEN Len(split(f[k])) = size
                    ELSE Len(split(f[k])) \in 1..size
               /\ Len(f) <= ChunkTarget

\* C12: a request to either endpoint that fails the auth check gets HTTP 401
\* with an error envelope of type authentication_error.
C12_AuthFailureEnvelope ==
    \A r \in Requests :
        (pc[r] # "idle" /\ ~AuthPassed(r)) =>
            /\ response[r].status = 401
            /\ response[r].body = "error"
            /\ response[r].etype = "authentication_error"

ErrorTypes == {"invalid_request_error", "authentication_error", "server_error", "api_error"}

\* An envelope {error: {message, type, code}} with its three fields filled.
Filled(e) == e.msg # "" /\ e.etype \in ErrorTypes /\ e.code # ""

\* C13: every failed request is answered with the envelope, as an error
\* response or (once the stream is open) as an error event, and every
\* envelope has message, type and code filled, the type being one of the
\* four of the taxonomy.
C13_UniformEnvelope ==
    \A r \in Requests :
        /\ pc[r] = "failed" =>
             \/ response[r].body = "error"
             \/ response[r].body = "event-stream" /\ HasKind(r, "error")
        /\ response[r].body = "error" => (response[r].status >= 400 /\ Filled(response[r]))
        /\ \A k \in 1..Len(events[r]) :
             events[r][k].kind = "error" => Filled(events[r][k])

\* C14: the usage of every non-streaming completion response counts the
\* whitespace-separated words of the extracted query (prompt_tokens) and of
\* the processed answer (completion_tokens), and total_tokens is their sum.
C14_UsageAddsUp ==
    \A r \in Requests :
        response[r].body = "completion" =>
            /\ response[r].prompt_tokens =
                   Len(split(extract_user_query(request[r].messages).value))
            /\ response[r].completion_tokens =
                   Len(split(process_answer(CLEAN_MARKDOWN, result[r])))
            /\ response[r].total_tokens =
                   response[r].prompt_tokens + response[r].completion_tokens
            /\ response[r].content = process_answer(CLEAN_MARKDOWN, result[r])

\* Strip mode removed the heading marker of a three-word raw answer: the
\* response counts the two words that are left.
C14_Witness ==
    \E r \in Requests :
        /\ response[r].body = "completion" /\ CLEAN_MARKDOWN
        /\ Len(split(result[r])) = 3
        /\ response[r].completion_tokens = 2
        /\ response[r].prompt_tokens = 2
        /\ response[r].total_tokens = 4

\* Index of the most recent message of role user.
LastUser(messages) ==
    CHOOSE k \in 1..Len(messages) :
        /\ messages[k].role = "user"
        /\ \A j \in (k + 1)..Len(messages) : messages[j].role # "user"

\* C15: a request with a user message that passes the auth and notebook
\* checks goes on to the backend call, and the query of that call is the
\* content of the last user message, whatever comes before or after it.
C15_LastUserMessage ==
    \A r \in Requests :
        (Received(r) /\ ~NoUserMessage(r)) =>
            /\ (AuthPassed(r) /\ (Truthy(request[r].notebook_id) \/ Truthy(DEFAULT_NOTEBOOK_ID)))
                 => call[r] # NoCall
            /\ call[r] # NoCall =>
                 call[r].query = request[r].messages[LastUser(request[r].messages)].content

\* Two user messages with different contents: the second is the query.
C15_Witness ==
    \E r \in Requests :
        /\ Received(r) /\ Len(request[r].messages) = 2
        /\ request[r].messages[1].role = "user" /\ request[r].messages[2].role = "user"
        /\ request[r].messages[1].content # request[r].messages[2].content
        /\ call[r] # NoCall
        /\ call[r].query = request[r].messages[2].content

RECURSIVE NewlineRunEnd(_, _)
NewlineRunEnd(s, p) == IF p < Len(s) /\ s[p + 1] = NL THEN NewlineRunEnd(s, p + 1) ELSE p

\* The lengths of the maximal runs of newlines of s, from left to right.
NewlineRuns(s) ==
    LET IsStart(p) == s[p] = NL /\ (p = 1 \/ s[p - 1] # NL)
        starts == Positions(s, IsStart)
    IN [k \in 1..Len(starts) |-> NewlineRunEnd(s, starts[k]) - starts[k] + 1]

\* The answer of r was produced in normalize mode.
Normalized(r) == answer[r] # None /\ ~CLEAN_MARKDOWN

\* C16 as stated: normalize keeps the newline runs between the words of its
\* input, and where the input had a run of 4 or more newlines the output has
\* a run of no more than 2.
C16_RunsCollapseToTwo ==
    \A r \in Requests :
        Normalized(r) =>
            LET in == NewlineRuns(strip(result[r]))
                out == NewlineRuns(answer[r])
            IN /\ Len(out) = Len(in)
               /\ \A k \in 1..Len(in) : in[k] >= NormalizeRun => out[k] <= 2

\* C16: normalize keeps the newline runs between the words of its input;
\* where the input had a run of 4 or more newlines the output has a run of
\* exactly 3 (two blank lines), and the output has no run of more than 3.
C16_RunsCollapseToThree ==
    \A r \in Requests :
        Normalized(r) =>
            LET in == NewlineRuns(strip(result[r]))
                out == NewlineRuns(answer[r])
            IN /\ Len(out) = Len(in)
               /\ \A k \in 1..Len(in) :
                    /\ out[k] <= NormalizeTo
                    /\ in[k] >= NormalizeRun => out[k] = NormalizeTo

\* A raw answer with a run of five newlines between two words, normalized.
C16_Witness ==
    \E r \in Requests :
        /\ Normalized(r)
        /\ \E k \in 1..Len(NewlineRuns(strip(result[r]))) :
             /\ NewlineRuns(strip(result[r]))[k] > NormalizeRun
             /\ NewlineRuns(answer[r])[k] = NormalizeTo

\* Everything the model keeps for request r.
RequestState(r) ==
    <<pc[r], request[r], call[r], session[r], asks[r], exc[r], result[r], completion[r],
      answer[r], i[r], events[r], response[r]>>

\* The arguments of r's backend call and r's processed answer, when a step
\* sets them, are computed from r's own request, the configuration and r's
\* own backend answer.
OwnInput(r) ==
    /\ call'[r] # call[r] =>
         call'[r] = resolve_request(API_KEY, DEFAULT_NOTEBOOK_ID, request'[r]).value
    /\ answer'[r] # answer[r] =>
         answer'[r] = process_answer(CLEAN_MARKDOWN, result'[r])

\* What r has emitted so far is cut from r's own answer and carries r's own
\* completion id, timestamp and model; r's response is built from r's own
\* query and answer.
OwnOutput(r) ==
    LET words == split(answer[r])
        f == DeltaContents(r)
    IN /\ \A k \in 1..Len(events[r]) :
            events[r][k].kind \in {"delta", "final"} =>
                /\ events[r][k].id = completion[r].id
                /\ events[r][k].created = completion[r].created
                /\ events[r][k].model = request[r].model
       /\ \A k \in 1..Len(f) : f[k] = chunk_content(words, (k - 1) * chunk_size(words))
       /\ response[r].body = "completion" =>
            response[r] = CompletionResponse(completion[r], request[r].model,
                                             call[r].query, answer[r])

\* A step is a step of one request: it leaves the other requests and the
\* configuration as they are.
OneRequestPerStep ==
    /\ config' = config
    /\ \A r1, r2 \in Requests :
         (RequestState(r1)' # RequestState(r1) /\ RequestState(r2)' # RequestState(r2))
            => r1 = r2

\* C17: in every interleaving of the requests, each step changes one
\* request only, and the events and the response of a request are
\* determined by its own request, the configuration and its own backend
\* answer: its events carry its own id, timestamp and model and its
\* fragments are cut from its own answer.
C17_NoInterference ==
    /\ [](\A r \in Requests : OwnOutput(r))
    /\ [][OneRequestPerStep /\ \A r \in Requests : OwnInput(r)]_vars

\* Two streams with different answers, both suspended in their pacing delay
\* after a chunk, with different completion ids.
C17_Witness ==
    \E r1, r2 \in Requests :
        /\ r1 # r2
        /\ pc[r1] = "sleep" /\ pc[r2] = "sleep"
        /\ answer[r1] # answer[r2]
        /\ completion[r1] # completion[r2]
        /\ HasKind(r1, "delta") /\ HasKind(r2, "delta")

\* The states of the adapter's state machine, in order.  Resolving and
\* PostProcessing have no await and pass within one step; a request that
\* leaves its client scope is on its way to Done or Failed.
Phase(p) ==
    CASE p = "idle" -> 0
      [] p \in {"construct", "ask"} -> 2
      [] p \in {"emit", "sleep", "final", "sentinel"} -> 4
      [] p = "release" -> 5
      [] OTHER -> 6

\* Done: the handler ran to its end.  Failed: it ended with an error
\* response or error event, or it was abandoned by its client.
Done(r) == pc[r] = "done"
Failed(r) == pc[r] \in {"failed", "cancelled"}

HasNotebook(r) == Truthy(request[r].notebook_id) \/ Truthy(DEFAULT_NOTEBOOK_ID)

\* C19: the first failing check of auth, notebook id, user message decides
\* the response of a chat request: 401 when auth fails, whatever else is
\* missing; else missing_notebook_id when no notebook id is set, also when
\* there is no user message either; else no_user_message when there is no
\* user message; and no 4xx response when all three pass.
C19_CheckOrder ==
    \A r \in Requests :
        Received(r) =>
            IF ~AuthPassed(r)
            THEN response[r].status = 401 /\ response[r].code = "http_401"
            ELSE IF ~HasNotebook(r)
                 THEN response[r].status = 400 /\ response[r].code = "missing_notebook_id"
                 ELSE IF NoUserMessage(r)
                      THEN response[r].status = 400 /\ response[r].code = "no_user_message"
                      ELSE response[r].body # "error" /\ call[r] # NoCall

\* The credential matches the configured key; the request has neither a
\* notebook id nor a user message.
C19_Witness ==
    \E r \in Requests :
        /\ Received(r) /\ Truthy(API_KEY) /\ AuthPassed(r)
        /\ ~HasNotebook(r) /\ NoUserMessage(r) /\ Len(request[r].messages) > 0
        /\ response[r].code = "missing_notebook_id"

\* C20: a stream=true request that fails resolution gets an HTTP 401/400
\* error response, with no stream opened, no session acquired, no ask and no
\* event; one that passes resolution has an HTTP 200 event stream as its
\* response from then on, and a backend failure (client construction, ask)
\* shows as an error event in that stream, never as another status.
C20_StreamFailures ==
    \A r \in Requests :
        (Received(r) /\ request[r].stream) =>
            IF call[r] = NoCall
            THEN /\ pc[r] = "failed"
                 /\ response[r].body = "error"
                 /\ response[r].status \in {400, 401}
                 /\ session[r] = 0 /\ asks[r] = 0
                 /\ events[r] = <<>>
            ELSE /\ response[r] = StreamingResponse
                 /\ pc[r] = "failed" =>
                      /\ LastEvent(r) = ErrorEvent(exc[r])
                      /\ LastEvent(r).etype = "server_error"

\* A stream whose client construction failed: status 200, one error event.
C20_Witness ==
    \E r \in Requests :
        /\ Received(r) /\ request[r].stream
        /\ pc[r] = "failed" /\ exc[r] = AuthFailed
        /\ response[r].status = 200
        /\ Len(events[r]) = 1 /\ events[r][1].kind = "error"

\* C21: a stream holds its session from the ask through every chunk, every
\* pacing delay, the final chunk and the sentinel: each of these events is
\* emitted with the session open, and a stream that ended without failure
\* released its session after its complete event sequence.  On a failure the
\* session is released before the error event is out: no stream has an
\* error event while its session is open.
C21_SessionHeldWhileEmitting ==
    /\ [](\A r \in Requests :
            Streamed(r) =>
                /\ pc[r] \in {"ask", "emit", "sleep", "final", "sentinel"} =>
                     session[r] \in opened
                /\ (pc[r] = "done" /\ session[r] \notin opened) =>
                     events[r] = ExpectedStream(r)
                /\ HasKind(r, "error") => session[r] \notin opened)
    /\ [][\A r \in Requests :
            (/\ Len(events'[r]) > Len(events[r])
             /\ events'[r][Len(events'[r])].kind \in {"delta", "final", "done"}) =>
                (session[r] \in opened /\ session[r] \in opened')]_vars

\* One stream waits in its pacing delay after a chunk with its session
\* open; another, whose ask raised, has released its session and emitted
\* its error event.
C21_Witness ==
    \E r1, r2 \in Requests :
        /\ Streamed(r1) /\ pc[r1] = "sleep" /\ HasKind(r1, "delta")
        /\ session[r1] \in opened
        /\ Streamed(r2) /\ pc[r2] = "failed" /\ asks[r2] = 1
        /\ exc[r2] = PlainException("backend down")
        /\ session[r2] # 0 /\ session[r2] \notin opened
        /\ Len(events[r2]) = 1 /\ events[r2][1].kind = "error"

\* The processed answer of r has no words.
NoWords(r) == answer[r] # None /\ split(answer[r]) = <<>>

\* C22: the content of every DeltaChunk is a non-empty text holding at
\* least one word; a stream whose processed answer has no words emits no
\* DeltaChunk, goes on to its FinalMarker and sentinel and ends Done with
\* exactly these two events and no error event.
C22_NoEmptyChunks ==
    \A r \in Requests :
        Streamed(r) =>
            /\ \A k \in 1..Len(DeltaContents(r)) :
                 /\ DeltaContents(r)[k] # <<>>
                 /\ Len(split(DeltaContents(r)[k])) >= 1
            /\ NoWords(r) =>
                 /\ ~HasKind(r, "delta") /\ ~HasKind(r, "error")
                 /\ pc[r] \in {"emit", "final", "sentinel", "done"}
                 /\ pc[r] \in {"final", "sentinel", "done"} =>
                      events[r][1] = FinalMarker(completion[r], call[r].model)
                 /\ pc[r] \in {"sentinel", "done"} =>
                      events[r] = <<FinalMarker(completion[r], call[r].model), DoneSentinel>>

\* The backend answered with whitespace only; the stream ended Done with
\* its FinalMarker and sentinel.
C22_Witness ==
    \E r \in Requests :
        /\ Streamed(r) /\ pc[r] = "done"
        /\ result[r] # <<>> /\ NoWords(r)
        /\ Len(events[r]) = 2
        /\ events[r][1].kind = "final" /\ events[r][2].kind = "done"

====
